---- MODULE Spec2Model ----
(***************************************************************************)
(* Dialogue-box reconstruction engine of Eushlator: the box detector       *)
(* (process/extract_dialogue.py), the chunk collapser                      *)
(* (process/extract_dialogue_refine.py), the text layout engine            *)
(* (utils/text_box_utils.py) and the script splicer (process/reinsert.py). *)
(*                                                                         *)
(* All indices are Python's 0-based indices; PyAt and PySlice translate    *)
(* them to TLA+ sequences.                                                 *)
(***************************************************************************)
EXTENDS Integers, Sequences, FiniteSets, TLC

VARIABLES
    pc,               \* position of the pipeline under analysis
    scene_id,         \* name of the scene (path.stem, scene_name)
    lines,            \* the decompiled scene script (input of extract_boxes)
    boxes,            \* the TextBox list extract_boxes returned
    final_en_script,  \* reinsert: the working script
    origin,           \* ghost, parallel to final_en_script: the 0-based index
                      \* each line had in `lines`, -1 for an inserted line
    starting_offset,  \* reinsert_translations: cursor carried between chunks
    position,         \* craft_into_script: cursor carried between boxes
    jp_box_dicts,     \* craft_into_script: the run of boxes being spliced
    i,                \* craft_into_script: index of the splice loop
    nxt,              \* number of boxes of the scene already handed to craft
    variant,          \* craft_into_script: generation variant chosen per box
    last,             \* ghost: what the last iteration of the splice loop did
    en_text,          \* create_english_box: the translated text
    jp_texts,         \* craft_into_script: the texts of the boxes of the run
    text_lines,       \* config["text_lines"]
    line_length,      \* config["line_length"]
    wrapped,          \* the containers before reconcile
    en_containers,    \* the containers create_english_box returned
    in_boxes,         \* _collapse_boxes: the ordered box list
    flushed,          \* reinsert_translations: the state of the loop over the boxes
    chunks,           \* _collapse_boxes: the chunks returned
    code,             \* find_label_before: the script lines
    label_template,   \* find_label_before: the template looked for
    label,            \* find_label_before: the line returned
    en_container,           \* create_text_box_code*: the container of sub-boxes
    speaker,          \* create_text_box_code: the speaker of the box
    current_char_label,  \* code_utils global set by init_labels
    current_narr_label,  \* code_utils global set by init_labels
    gen_variant,      \* which generator was called
    final_code,       \* the command lines the generator returned
    n_scenes,         \* reinsert_translations: number of <scene>.yaml files
    scene_no,         \* rank of the scene the loop is at, 0 before the first
    jp_script,        \* the decompiled script of the scene
    scene_jp_boxes,   \* jp_boxes: the boxes of the per-scene YAML
    jp_full_boxes,    \* full_script.get(scene_name, [])
    translations,     \* en_full_boxes["translations"]
    edited_script,    \* the manually edited script, if it exists
    jp_iter,          \* number of boxes the loop over jp_iter has taken
    full_iter,        \* number of chunks taken from full_iter
    en_iter,          \* number of records taken from en_iter
    out_files,        \* the scripts written to out_path, by rank of scene
    error,            \* the exception that left reinsert_translations
    spliced           \* ghost: per craft_into_script call of the scene, the
                      \* id of the chunk and the record whose text it got

vars == << pc, scene_id, lines, boxes, final_en_script, origin, starting_offset, position,
           jp_box_dicts, i, nxt, variant, last, en_text, jp_texts, text_lines, line_length,
           wrapped, en_containers, in_boxes, flushed, chunks, code, label_template, label,
           en_container, speaker, current_char_label, current_narr_label, gen_variant,
           final_code, n_scenes, scene_no, jp_script, scene_jp_boxes, jp_full_boxes,
           translations, edited_script, jp_iter, full_iter, en_iter, out_files, error,
           spliced >>

scriptVars == << scene_id, lines, boxes, final_en_script, origin, starting_offset,
                 position, jp_box_dicts, i, nxt, variant, last >>
layoutVars == << en_text, jp_texts, text_lines, line_length, wrapped, en_containers >>
collapseVars == << in_boxes, flushed, chunks >>
labelVars == << code, label_template, label >>
codegenVars == << en_container, speaker, current_char_label, current_narr_label, gen_variant,
                 final_code >>
sceneVars == << n_scenes, scene_no, jp_script, scene_jp_boxes, jp_full_boxes, translations,
               edited_script, jp_iter, full_iter, en_iter, out_files, error, spliced >>
extraVars == << labelVars, codegenVars, sceneVars >>

(***************************************************************************)
(* Bounds of the model.                                                    *)
(***************************************************************************)
MaxScriptLen == 4
MaxSegments == 3
MaxBlockLen == 2
MaxTextLen == 4
MaxRunLen == 2
MaxTextLines == 2
MaxLineLength == 3
MaxBoxList == 4
MaxCodeLen == 4
MaxSubBoxLen == 2
MaxSubBoxes == 2
MaxContLen == 3
MaxConts == 2
MaxJpLen == 3
MaxScenes == 2
MaxChunkId == 2
MaxRecords == 2

(***************************************************************************)
(* Python list primitives.                                                 *)
(***************************************************************************)
\* seq[k] is defined (no IndexError)
PyInRange(seq, k) == k >= 0 - Len(seq) /\ k < Len(seq)

\* seq[k], negative k counted from the end
PyAt(seq, k) == IF k >= 0 THEN seq[k + 1] ELSE seq[Len(seq) + k + 1]

Min(a, b) == IF a < b THEN a ELSE b
Max(a, b) == IF a > b THEN a ELSE b

\* a slice bound clamped as Python clamps it
PyClamp(seq, k) == IF k < 0 THEN Max(0, Len(seq) + k) ELSE Min(k, Len(seq))

\* seq[a:b]
PySlice(seq, a, b) == SubSeq(seq, PyClamp(seq, a) + 1, PyClamp(seq, b))

SeqsUpTo(S, n) == UNION { [1..k -> S] : k \in 0..n }

(***************************************************************************)
(* Script lines.  A line is its text; the predicates below are the string  *)
(* tests of the source evaluated on the lines of the alphabet.             *)
(***************************************************************************)
MARKER == "u00416120"
MARKER_304 == "304"
SG_CALL == "call label_00004c70"
SHOW0 == "show-text 0 \"jp\""
SHOW1 == "show-text 1 \"jp\""
SHOW0_INDENTED == "  show-text 0 \"jp\""
CONCAT == "concat (global-string bbb) (global-string bbb) \"jp\""
LOOKUP == "lookup-array (local-ptr 0) (global-int 6623) 0"
MOV_1A == "mov (local-ptr 0) 1a"
MOV_2B == "mov (local-ptr 0) 2b"
EN_SHOW == "show-text 0 \"en\""

\* the lines scripts are drawn from
LineKinds == { MARKER, SHOW0, SHOW0_INDENTED, CONCAT, SHOW1, LOOKUP, MOV_1A, MOV_2B }

\* the scene names scenes are drawn from
SceneIds == { "SC0001", "SG0001" }

\* "SG" in name
NameHasSG(name) == name \in { "SG0001" }

\* any(st.startswith(cmd) for cmd in TEXT_CMDS)
IsTextCmd(st) == st \in { SHOW0, CONCAT, EN_SHOW }

\* ln.startswith("show-text")
StartsWithShowText(ln) == ln \in { SHOW0, SHOW1, EN_SHOW }

\* st.startswith("concat")
StartsWithConcat(ln) == ln \in { CONCAT }

\* ln.strip(): SHOW0_INDENTED is the one line of the alphabet that carries
\* surrounding white space
Strip(ln) == IF ln = SHOW0_INDENTED THEN SHOW0 ELSE ln

LookupMatches(st) == st = LOOKUP
MovMatches(st) == st \in { MOV_1A, MOV_2B }
\* int(mv.group(1), 16)
MovId(st) == IF st = MOV_1A THEN 26 ELSE 43

None == -1
name_map == [ id \in { 26 } |-> "Marc" ]
\* name_map.get(pending_speaker, "Narrator")
NameMapGet(id) == IF id \in DOMAIN name_map THEN name_map[id] ELSE "Narrator"

is_box_start(line, name) ==
    \/ line = MARKER
    \/ line = MARKER_304
    \/ (NameHasSG(name) /\ line = SG_CALL)

(***************************************************************************)
(* Box detector: extract_boxes.                                            *)
(*                                                                         *)
(* The local state of the scan is a record; `raised` is set when the scan  *)
(* ends with an IndexError.  A TextBox is [idx, speaker, offset, raw];     *)
(* jp_text is a function of raw and is not carried.                        *)
(***************************************************************************)
ExtractInit ==
    [ boxes |-> << >>, pending_speaker |-> None, waiting_mov |-> FALSE,
      in_box |-> FALSE, after_u |-> FALSE, buf |-> << >>, start_idx |-> -1,
      last_end |-> 0, raised |-> FALSE ]

\* faulty variant: the distance is taken from the line that closed the previous box
box_offset_from_closing_line(start_idx, last_end) ==
    IF last_end >= 0 THEN start_idx - (last_end + 1) ELSE 0

\* offset = start_idx - last_end if last_end >= 0 else 0
box_offset(start_idx, last_end) ==
    IF last_end >= 0 THEN start_idx - last_end ELSE 0

\* speaker_name = name_map.get(pending_speaker, "Narrator")
box_speaker(pending_speaker) == NameMapGet(pending_speaker)

\* faulty variant: pending_speaker is not reset when a box is closed
close_keeping_speaker(s, end_before) ==
    LET emit == s.in_box /\ s.buf # << >>
        box == [ idx |-> Len(s.boxes) + 1,
                 speaker |-> box_speaker(s.pending_speaker),
                 offset |-> box_offset(s.start_idx, s.last_end),
                 raw |-> s.buf ]
    IN  [ s EXCEPT !.boxes = IF emit THEN Append(@, box) ELSE @,
                   !.last_end = IF emit THEN end_before ELSE @,
                   !.in_box = FALSE,
                   !.after_u = FALSE,
                   !.buf = << >>,
                   !.start_idx = -1 ]

close(s, end_before) ==
    LET emit == s.in_box /\ s.buf # << >>
        box == [ idx |-> Len(s.boxes) + 1,
                 speaker |-> box_speaker(s.pending_speaker),
                 offset |-> box_offset(s.start_idx, s.last_end),
                 raw |-> s.buf ]
    IN  [ s EXCEPT !.boxes = IF emit THEN Append(@, box) ELSE @,
                   !.last_end = IF emit THEN end_before ELSE @,
                   !.in_box = FALSE,
                   !.after_u = FALSE,
                   !.buf = << >>,
                   !.start_idx = -1,
                   !.pending_speaker = None ]

\* speaker tracking of one line
speaker_step(s, st) ==
    IF LookupMatches(st)
    THEN [ s EXCEPT !.waiting_mov = TRUE ]
    ELSE IF s.waiting_mov
         THEN [ s EXCEPT !.pending_speaker = IF MovMatches(st) THEN MovId(st) ELSE @,
                         !.waiting_mov = FALSE ]
         ELSE s

\* a marker at idx: lines[idx+1] must start with show-text to confirm it
confirm_start(s, lns, idx) ==
    IF ~PyInRange(lns, idx + 1)
    THEN [ s EXCEPT !.raised = TRUE ]
    ELSE IF ~StartsWithShowText(PyAt(lns, idx + 1))
         THEN s
         ELSE [ s EXCEPT !.after_u = TRUE,
                         !.buf = << PyAt(lns, idx) >>,
                         !.start_idx = idx ]

\* box state machine of one line
box_step(s, lns, idx, name) ==
    LET ln == PyAt(lns, idx)
        st == Strip(ln)
    IN  IF ~s.in_box
        THEN IF is_box_start(st, name)
             THEN confirm_start(s, lns, idx)
             ELSE IF s.after_u
                  THEN IF IsTextCmd(st)
                       THEN [ s EXCEPT !.in_box = TRUE, !.buf = Append(@, ln) ]
                       ELSE [ s EXCEPT !.after_u = FALSE, !.buf = << >> ]
                  ELSE s
        ELSE IF IsTextCmd(st)
             THEN [ s EXCEPT !.buf = Append(@, ln) ]
             ELSE LET c == close(s, idx - 1)
                  IN  IF is_box_start(st, name)
                      THEN confirm_start(c, lns, idx)
                      ELSE c

RECURSIVE extract_loop(_, _, _, _)
extract_loop(s, lns, idx, name) ==
    IF s.raised \/ idx >= Len(lns)
    THEN s
    ELSE extract_loop(box_step(speaker_step(s, Strip(PyAt(lns, idx))), lns, idx, name),
                      lns, idx + 1, name)

\* faulty variant: a box still open at the end of the script is not closed
extract_boxes_without_last_close(lns, name) == extract_loop(ExtractInit, lns, 0, name)

\* the state at return (boxes in .boxes), or a state with .raised
extract_boxes(lns, name) ==
    LET s == extract_loop(ExtractInit, lns, 0, name)
    IN  IF s.raised THEN s ELSE close(s, Len(lns) - 1)

(***************************************************************************)
(* Script splicer: craft_into_script.                                      *)
(***************************************************************************)
\* the replacement blocks code_map[i] may hold
Blocks == { [ j \in 1..n |-> EN_SHOW ] : n \in 0..MaxBlockLen }

\* faulty variant: the concat mode is not kept for the later boxes of the run
RECURSIVE concat_pass_not_sticky(_, _, _, _, _, _, _)
concat_pass_not_sticky(script, run, name, k, concat_offset, concat_container, acc) ==
    IF k > Len(run)
    THEN [ raised |-> FALSE, variant |-> acc ]
    ELSE LET off == concat_offset + run[k].offset + 2
         IN  IF NameHasSG(name)
             THEN concat_pass_not_sticky(script, run, name, k + 1, off, FALSE,
                                         Append(acc, "SG"))
             ELSE IF ~PyInRange(script, off)
                  THEN [ raised |-> TRUE, variant |-> acc ]
                  ELSE concat_pass_not_sticky(script, run, name, k + 1, off, FALSE,
                           Append(acc, IF StartsWithConcat(PyAt(script, off))
                                       THEN "concat" ELSE "standard"))

\* first loop: the generation variant of every box of the run, or raised
RECURSIVE concat_pass(_, _, _, _, _, _, _)
concat_pass(script, run, name, k, concat_offset, concat_container, acc) ==
    IF k > Len(run)
    THEN [ raised |-> FALSE, variant |-> acc ]
    ELSE LET off == concat_offset + run[k].offset + 2
         IN  IF NameHasSG(name)
             THEN concat_pass(script, run, name, k + 1, off, concat_container,
                              Append(acc, "SG"))
             ELSE IF concat_container
                  THEN concat_pass(script, run, name, k + 1, off, TRUE,
                                   Append(acc, "concat"))
                  ELSE IF ~PyInRange(script, off)
                       THEN [ raised |-> TRUE, variant |-> acc ]
                       ELSE IF StartsWithConcat(PyAt(script, off))
                            THEN concat_pass(script, run, name, k + 1, off, TRUE,
                                             Append(acc, "concat"))
                            ELSE concat_pass(script, run, name, k + 1, off, FALSE,
                                             Append(acc, "standard"))

\* the while loop: the first index after lookat that holds no TEXT_CMDS line,
\* or -1 when the scan runs off the end of the script (IndexError)
RECURSIVE scan_end(_, _)
scan_end(script, lookat) ==
    LET nx == lookat + 1
    IN  IF ~PyInRange(script, nx)
        THEN -1
        ELSE IF IsTextCmd(Strip(PyAt(script, nx)))
             THEN scan_end(script, nx)
             ELSE nx

\* faulty variant: the offset is read in the coordinates of the original script
resolve_start_absolute(pos, offset) == offset

\* lookat = position + offset
resolve_start(pos, offset) == pos + offset

\* faulty variant: the marker line is replaced with the body
splice_dropping_marker(script, text_box_start, text_box_end, en_lines) ==
    PySlice(script, 0, text_box_start) \o en_lines
        \o PySlice(script, text_box_end, Len(script))

\* final_en_script[:text_box_start+1] + en_lines + final_en_script[text_box_end:]
splice(script, text_box_start, text_box_end, en_lines) ==
    PySlice(script, 0, text_box_start + 1) \o en_lines
        \o PySlice(script, text_box_end, Len(script))

\* faulty variant: the cursor is left on the line after the inserted block
next_position_past_block(text_box_start, en_lines) ==
    Len(en_lines) + text_box_start + 1

\* faulty variant: the cursor is left on the marker line of the box
next_position_at_marker(text_box_start, en_lines) == text_box_start

\* position = len(en_lines) + text_box_start
next_position(text_box_start, en_lines) == Len(en_lines) + text_box_start

NoLast == [ kind |-> "none" ]

\* building blocks of the longer scripts: a speaker assignment (known id,
\* unknown id), a line of no interest, a lone marker, and boxes opened by
\* each of the three markers, of one and of three body lines, one of them
\* with its speaker assignment
Segments ==
    { << LOOKUP, MOV_1A >>, << LOOKUP, MOV_2B >>, << SHOW1 >>, << MARKER >>,
      << MARKER, SHOW0 >>, << MARKER, SHOW0, CONCAT, SHOW0_INDENTED >>,
      << LOOKUP, MOV_1A, MARKER_304, SHOW0 >>, << SG_CALL, SHOW0 >> }

RECURSIVE Flatten(_)
Flatten(ss) == IF ss = << >> THEN << >> ELSE Head(ss) \o Flatten(Tail(ss))

\* every script of at most MaxScriptLen lines, and every concatenation of at
\* most MaxSegments segments
Scripts ==
    SeqsUpTo(LineKinds, MaxScriptLen)
        \cup { Flatten(ss) : ss \in SeqsUpTo(Segments, MaxSegments) }

InitScriptIdle ==
    /\ scene_id = "SC0001"
    /\ lines = << >>
    /\ boxes = << >>
    /\ final_en_script = << >>
    /\ origin = << >>
    /\ starting_offset = 0
    /\ position = 0
    /\ jp_box_dicts = << >>
    /\ i = 0
    /\ nxt = 0
    /\ variant = << >>
    /\ last = NoLast

InitScript ==
    /\ scene_id \in SceneIds
    /\ lines \in Scripts
    /\ boxes = << >>
    /\ final_en_script = << >>
    /\ origin = << >>
    /\ starting_offset = 0
    /\ position = 0
    /\ jp_box_dicts = << >>
    /\ i = 0
    /\ nxt = 0
    /\ variant = << >>
    /\ last = NoLast

\* extract_boxes returns; reinsert copies the script and starts at cursor 0
ExtractReturns ==
    /\ pc = "start"
    /\ ~extract_boxes(lines, scene_id).raised
    /\ boxes' = extract_boxes(lines, scene_id).boxes
    /\ final_en_script' = lines
    /\ origin' = [ k \in 1..Len(lines) |-> k - 1 ]
    /\ starting_offset' = 0
    /\ pc' = "scene"
    /\ UNCHANGED << scene_id, lines, position, jp_box_dicts, i, nxt, variant, last >>
    /\ UNCHANGED layoutVars /\ UNCHANGED collapseVars
    /\ UNCHANGED extraVars

\* extract_boxes raises IndexError: lines[idx+1] past the end
ExtractRaises ==
    /\ pc = "start"
    /\ extract_boxes(lines, scene_id).raised
    /\ pc' = "extract_error"
    /\ UNCHANGED scriptVars /\ UNCHANGED layoutVars /\ UNCHANGED collapseVars
    /\ UNCHANGED extraVars

\* jp_boxes_acc when the run that starts with box n + 1 is flushed: the boxes
\* accumulated while speaker == current_speaker
speaker_run(bxs, n) ==
    LET k == CHOOSE k \in 1..(Len(bxs) - n) :
                 /\ \A j \in (n + 1)..(n + k) : bxs[j].speaker = bxs[n + 1].speaker
                 /\ (n + k = Len(bxs) \/ bxs[n + k + 1].speaker # bxs[n + 1].speaker)
    IN  SubSeq(bxs, n + 1, n + k)

\* the next run of boxes of one speaker is flushed: craft_into_script is
\* entered and chooses the generation variant of every box of the run
CraftBegin ==
    /\ pc = "scene"
    /\ nxt < Len(boxes)
    /\ LET run == speaker_run(boxes, nxt)
           cp == concat_pass(final_en_script, run, scene_id, 1, starting_offset, FALSE, << >>)
       IN  /\ jp_box_dicts' = run
           /\ variant' = cp.variant
           /\ pc' = IF cp.raised THEN "craft_error" ELSE "craft"
    /\ position' = starting_offset
    /\ i' = 0
    /\ last' = NoLast
    /\ UNCHANGED << scene_id, lines, boxes, final_en_script, origin, starting_offset, nxt >>
    /\ UNCHANGED layoutVars /\ UNCHANGED collapseVars
    /\ UNCHANGED extraVars

\* one iteration of the splice loop
SpliceBox ==
    /\ pc = "craft"
    /\ i < Len(jp_box_dicts)
    /\ \E en_lines \in Blocks :
         LET text_box_start == resolve_start(position, jp_box_dicts[i + 1].offset)
             text_box_end == scan_end(final_en_script, text_box_start)
             rec == [ kind |-> "splice", box |-> nxt + i + 1,
                      cursor |-> position, s |-> text_box_start,
                      e |-> text_box_end, B |-> en_lines,
                      old |-> final_en_script, oldorigin |-> origin ]
         IN  IF text_box_end = -1
             THEN /\ pc' = "splice_error"
                  /\ last' = [ rec EXCEPT !.kind = "raise" ]
                  /\ UNCHANGED << final_en_script, origin, position, i >>
             ELSE /\ final_en_script' =
                        splice(final_en_script, text_box_start, text_box_end, en_lines)
                  /\ origin' = splice(origin, text_box_start, text_box_end,
                                      [ j \in 1..Len(en_lines) |-> -1 ])
                  /\ position' = next_position(text_box_start, en_lines)
                  /\ i' = i + 1
                  /\ last' = rec
                  /\ pc' = "craft"
    /\ UNCHANGED << scene_id, lines, boxes, starting_offset, jp_box_dicts, nxt, variant >>
    /\ UNCHANGED layoutVars /\ UNCHANGED collapseVars
    /\ UNCHANGED extraVars

\* return position, final_en_script
CraftReturn ==
    /\ pc = "craft"
    /\ i = Len(jp_box_dicts)
    /\ starting_offset' = position
    /\ nxt' = nxt + Len(jp_box_dicts)
    /\ last' = [ kind |-> "return", given |-> starting_offset, returned |-> position ]
    /\ pc' = "scene"
    /\ UNCHANGED << scene_id, lines, boxes, final_en_script, origin, position, jp_box_dicts,
                    i, variant >>
    /\ UNCHANGED layoutVars /\ UNCHANGED collapseVars
    /\ UNCHANGED extraVars

\* every run has been spliced: the script is written
WriteScene ==
    /\ pc = "scene"
    /\ nxt = Len(boxes)
    /\ pc' = "written"
    /\ UNCHANGED scriptVars /\ UNCHANGED layoutVars /\ UNCHANGED collapseVars
    /\ UNCHANGED extraVars

(***************************************************************************)
(* Text layout engine: text_box_utils.py.                                  *)
(*                                                                         *)
(* A string is the sequence of its characters.  PUA stands for a code      *)
(* point of the private use area (U+E000), which is_wide_char counts as    *)
(* wide; "a" and "j" are narrow.                                           *)
(***************************************************************************)
SPACE == " "
NL == "\n"
PUA == "<U+E000>"

\* the characters translated texts are drawn from
Chars == { "a", PUA, SPACE, NL }

\* the texts of the boxes of a run: join_text yields no line break
BoxTexts == { << >>, << "j" >> }

is_wide_char(ch) == ch \in { PUA }

RECURSIVE measure_text_width(_)
measure_text_width(str) ==
    IF str = << >> THEN 0
    ELSE (IF is_wide_char(Head(str)) THEN 2 ELSE 1) + measure_text_width(Tail(str))

\* index of the first occurrence of sep in str, 0 when there is none
RECURSIVE FindFirst(_, _, _)
FindFirst(str, sep, k) ==
    IF k > Len(str) THEN 0
    ELSE IF str[k] = sep THEN k
    ELSE FindFirst(str, sep, k + 1)

\* str.split(sep)
RECURSIVE PySplit(_, _)
PySplit(str, sep) ==
    LET f == FindFirst(str, sep, 1)
    IN  IF f = 0 THEN << str >>
        ELSE << SubSeq(str, 1, f - 1) >> \o PySplit(SubSeq(str, f + 1, Len(str)), sep)

\* sep.join(parts)
RECURSIVE PyJoin(_, _)
PyJoin(parts, sep) ==
    IF parts = << >> THEN << >>
    ELSE IF Len(parts) = 1 THEN parts[1]
    ELSE parts[1] \o << sep >> \o PyJoin(Tail(parts), sep)

\* faulty variant: the popped sub-boxes are appended in the order of the pops
Reverse_not(seq) == seq

\* reversed(seq)
Reverse(seq) == [ k \in 1..Len(seq) |-> seq[Len(seq) - k + 1] ]

\* _flush
flush(st) ==
    [ boxes |-> IF st.lines # << >> THEN Append(st.boxes, PyJoin(st.lines, NL))
                ELSE st.boxes,
      lines |-> << >> ]

\* faulty variant: a sub-box is given one line more than max_lines
has_room_off_by_one(cur, max_lines) == Len(cur) <= max_lines

\* len(lines) < max_lines
has_room(cur, max_lines) == Len(cur) < max_lines

\* faulty variant: a line that fills the budget exactly is not accepted
fits_strictly(candidate, max_chars_per_line) ==
    measure_text_width(candidate) < max_chars_per_line

\* measure_text_width(candidate) <= max_chars_per_line
fits(candidate, max_chars_per_line) ==
    measure_text_width(candidate) <= max_chars_per_line

\* one iteration of the loop over words
wrap_word(st, word, max_lines, max_chars_per_line) ==
    IF st.lines = << >>
    THEN [ st EXCEPT !.lines = << word >> ]
    ELSE LET candidate == st.lines[Len(st.lines)] \o << SPACE >> \o word
         IN  IF fits(candidate, max_chars_per_line)
             THEN [ st EXCEPT !.lines[Len(st.lines)] = candidate ]
             ELSE IF has_room(st.lines, max_lines)
                  THEN [ st EXCEPT !.lines = Append(@, word) ]
                  ELSE [ flush(st) EXCEPT !.lines = << word >> ]

RECURSIVE wrap_words(_, _, _, _)
wrap_words(st, words, max_lines, max_chars_per_line) ==
    IF words = << >> THEN st
    ELSE wrap_words(wrap_word(st, Head(words), max_lines, max_chars_per_line),
                    Tail(words), max_lines, max_chars_per_line)

correct_en_box(en_box, max_lines, max_chars_per_line) ==
    flush(wrap_words([ boxes |-> << >>, lines |-> << >> ],
                     PySplit(en_box, SPACE), max_lines, max_chars_per_line)).boxes

\* faulty variant: an empty container is left empty
pad_container_not(nc) == nc

\* if not nc: nc.append("")
pad_container(nc) == IF nc = << >> THEN << << >> >> ELSE nc

\* len(last) > need
can_pop(lastc, need) == Len(lastc) > need

\* faulty variant: the last rem containers get the larger size
redistribute_extras_last(conts, jp_len) ==
    LET flat == Flatten(conts)
        total == Len(flat)
        div == total \div jp_len
        rem == total % jp_len
        size(k) == IF k >= jp_len - rem THEN div + 1 ELSE div
        idx(k) == k * div + Max(0, k - (jp_len - rem))
    IN  [ k \in 1..jp_len |->
            pad_container(PySlice(flat, idx(k - 1), idx(k - 1) + size(k - 1))) ]

\* flatten and re-chunk to exactly jp_len containers
redistribute(conts, jp_len) ==
    LET flat == Flatten(conts)
        total == Len(flat)
        div == total \div jp_len
        rem == total % jp_len
        size(k) == IF k < rem THEN div + 1 ELSE div
        idx(k) == k * div + Min(k, rem)
    IN  [ k \in 1..jp_len |->
            pad_container(PySlice(flat, idx(k - 1), idx(k - 1) + size(k - 1))) ]

reconcile(jp_boxes, conts) ==
    LET jp_len == Len(jp_boxes)
        cont_len == Len(conts)
    IN  IF jp_len > cont_len
        THEN LET need == jp_len - cont_len
                 lastc == PyAt(conts, -1)
             IN  IF can_pop(lastc, need)
                 THEN LET new == [ k \in 1..need |-> << lastc[Len(lastc) - k + 1] >> ]
                      IN  SubSeq(conts, 1, cont_len - 1)
                              \o << SubSeq(lastc, 1, Len(lastc) - need) >>
                              \o Reverse(new)
                 ELSE redistribute(conts, jp_len)
        ELSE IF jp_len < cont_len
             THEN SubSeq(conts, 1, jp_len - 1)
                      \o << conts[jp_len]
                              \o Flatten(SubSeq(conts, jp_len + 1, cont_len)) >>
             ELSE conts

\* en_containers before reconcile
wrap_boxes(en, max_lines, max_chars_per_line) ==
    LET en_boxes == PySplit(en, NL)
    IN  [ k \in 1..Len(en_boxes) |->
            correct_en_box(en_boxes[k], max_lines, max_chars_per_line) ]

create_english_box(jp_text, en, max_lines, max_chars_per_line) ==
    reconcile(PySplit(jp_text, NL), wrap_boxes(en, max_lines, max_chars_per_line))

InitLayout ==
    /\ en_text \in SeqsUpTo(Chars, MaxTextLen)
    /\ jp_texts \in SeqsUpTo(BoxTexts, MaxRunLen) \ { << >> }
    /\ text_lines \in 1..MaxTextLines
    /\ line_length \in 1..MaxLineLength
    /\ wrapped = << >>
    /\ en_containers = << >>

\* craft_into_script joins the texts of the run and lays the translation out
CreateEnglishBox ==
    /\ pc = "layout"
    /\ wrapped' = wrap_boxes(en_text, text_lines, line_length)
    /\ en_containers' =
           create_english_box(PyJoin(jp_texts, NL), en_text, text_lines, line_length)
    /\ pc' = "laid_out"
    /\ UNCHANGED << en_text, jp_texts, text_lines, line_length >>
    /\ UNCHANGED scriptVars /\ UNCHANGED collapseVars
    /\ UNCHANGED extraVars

\* the sub-boxes of the containers reconcile is given: the empty text and
\* another one
ReconcileSubBoxes == { << >>, << "a" >> }

\* reconcile is given one container per line of the translation, each with
\* the sub-boxes correct_en_box returned (at least one)
InitReconcile ==
    /\ en_text = << >>
    /\ jp_texts \in { [ k \in 1..n |-> << "j" >> ] : n \in 1..MaxJpLen }
    /\ text_lines = 1
    /\ line_length = 1
    /\ wrapped \in SeqsUpTo(SeqsUpTo(ReconcileSubBoxes, MaxContLen) \ { << >> }, MaxConts)
                     \ { << >> }
    /\ en_containers = << >>

\* en_containers = reconcile(jp_boxes, en_containers)
Reconcile ==
    /\ pc = "reconcile"
    /\ en_containers' = reconcile(jp_texts, wrapped)
    /\ pc' = "reconciled"
    /\ UNCHANGED << en_text, jp_texts, text_lines, line_length, wrapped >>
    /\ UNCHANGED scriptVars /\ UNCHANGED collapseVars
    /\ UNCHANGED extraVars

InitLayoutIdle ==
    /\ en_text = << >>
    /\ jp_texts = << >>
    /\ text_lines = 1
    /\ line_length = 1
    /\ wrapped = << >>
    /\ en_containers = << >>

(***************************************************************************)
(* Chunk collapser: _collapse_boxes.                                       *)
(***************************************************************************)
Speakers == { "Narrator", "Marc", "Luiri" }

\* a box of the per-scene YAML, as _collapse_boxes reads it
BoxDicts == [ speaker : Speakers, text : BoxTexts ]

\* {"speaker": cur_speaker, "text": "\n".join(cur_lines), "id": i}
chunk_of(cur_speaker, cur_lines, id) ==
    [ speaker |-> cur_speaker, text |-> PyJoin(cur_lines, NL), id |-> id ]

\* one iteration of the loop over boxes[1:]
collapse_box(st, box) ==
    IF box.speaker = st.cur_speaker
    THEN [ st EXCEPT !.cur_lines = Append(@, box.text) ]
    ELSE [ chunks |-> Append(st.chunks,
                             chunk_of(st.cur_speaker, st.cur_lines, st.i)),
           cur_speaker |-> box.speaker,
           cur_lines |-> << box.text >>,
           i |-> st.i + 1 ]

RECURSIVE collapse_loop(_, _)
collapse_loop(st, rest) ==
    IF rest = << >> THEN st
    ELSE collapse_loop(collapse_box(st, Head(rest)), Tail(rest))

\* faulty variant: a chunk is emitted only when the speaker changes
collapse_finish_without_last(st) == st.chunks

\* finalize the last chunk
collapse_finish(st) ==
    Append(st.chunks, chunk_of(st.cur_speaker, st.cur_lines, st.i))

collapse_boxes(bxs) ==
    IF bxs = << >> THEN << >>
    ELSE collapse_finish(
             collapse_loop([ chunks |-> << >>,
                             cur_speaker |-> bxs[1].speaker,
                             cur_lines |-> << bxs[1].text >>,
                             i |-> 1 ],
                           Tail(bxs)))

\* the locals of reinsert_translations before the loop over the boxes of a
\* scene; current_speaker is << >> for None
NothingFlushed ==
    [ current_speaker |-> << >>, jp_boxes_acc |-> << >>, last_pass |-> FALSE,
      full_iter |-> 0, runs |-> << >>, error |-> "none" ]

InitCollapse ==
    /\ in_boxes \in SeqsUpTo(BoxDicts, MaxBoxList)
    /\ chunks = << >>
    /\ flushed = NothingFlushed

CollapseBoxes ==
    /\ pc = "collapse"
    /\ chunks' = collapse_boxes(in_boxes)
    /\ pc' = "collapsed"
    /\ UNCHANGED << in_boxes, flushed >>
    /\ UNCHANGED scriptVars /\ UNCHANGED layoutVars
    /\ UNCHANGED extraVars

InitCollapseIdle ==
    /\ in_boxes = << >>
    /\ chunks = << >>
    /\ flushed = NothingFlushed

(***************************************************************************)
(* Label discovery: find_label_before (utils/code_utils.py).               *)
(***************************************************************************)
ADD_6625 == "add (local-int 0) 2 (global-int 6625)"
U004160D0 == "u004160D0"
MOV_6622 == "mov (global-int 6622) 1"
LABEL_LINE == "label_00001b20"
OTHER_LINE == "308 1"

new_char_text_box_label_template == << ADD_6625 >>
new_narr_text_box_label_template == << U004160D0, MOV_6622 >>

\* the lines scanned scripts are drawn from
CodeLines == { ADD_6625, U004160D0, MOV_6622, LABEL_LINE, OTHER_LINE }

\* matches: the indices i of range(len(code) - seq_len + 1) with
\* code[i: i + seq_len] == label_template
label_matches(cd, tpl) ==
    { m \in 0..(Len(cd) - Len(tpl)) : PySlice(cd, m, m + Len(tpl)) = tpl }

\* code[matches[0] - 1] when there is one match, "" otherwise
find_label_before(cd, tpl) ==
    LET matches == label_matches(cd, tpl)
    IN  IF Cardinality(matches) = 1
        THEN PyAt(cd, (CHOOSE m \in matches : TRUE) - 1)
        ELSE ""

InitLabel ==
    /\ code \in SeqsUpTo(CodeLines, MaxCodeLen)
    /\ label_template \in { new_char_text_box_label_template,
                             new_narr_text_box_label_template }
    /\ label = ""

FindLabelBefore ==
    /\ pc = "label"
    /\ label' = find_label_before(code, label_template)
    /\ pc' = "labelled"
    /\ UNCHANGED << code, label_template >>
    /\ UNCHANGED scriptVars /\ UNCHANGED layoutVars /\ UNCHANGED collapseVars
    /\ UNCHANGED codegenVars /\ UNCHANGED sceneVars

InitLabelIdle ==
    /\ code = << >>
    /\ label_template = << >>
    /\ label = ""

(***************************************************************************)
(* Code generators: create_text_box_code, create_text_box_code_concat and  *)
(* create_text_box_code_SG (utils/code_utils.py).                          *)
(*                                                                         *)
(* A generated line is [op, text]: op is the fixed part of the line, text  *)
(* the part the f-string fills in (a sequence of characters), << >> for a  *)
(* line without one.                                                       *)
(***************************************************************************)
shitter == "\""
safe_shitter == "'"

\* the characters sub-box texts are drawn from
GenChars == { "a", shitter, NL }

\* the labels init_labels may have set: none, or a line with trailing blanks
CharLabels == { << >>, << "c", SPACE >> }
NarrLabels == { << >>, << "n", SPACE >> }

GenSpeakers == { "Narrator", "Marc" }

Line(op, text) == [ op |-> op, text |-> text ]

BLANK == Line("", << >>)
END_TEXT_LINE == Line("end-text-line 0", << >>)
WAIT_FOR_INPUT == Line("wait-for-input 0", << >>)
\* show-text 0 "<text>"
ShowText(text) == Line("show-text 0", text)
\* concat (global-string bbb) (global-string bbb) "<text>"
ConcatText(text) == Line("concat (global-string bbb) (global-string bbb)", text)
\* call <label>
Call(lbl) == Line("call", lbl)

\* l.replace(shitter, safe_shitter)
sanitize(l) == [ k \in 1..Len(l) |-> IF l[k] = shitter THEN safe_shitter ELSE l[k] ]

\* str.rstrip()
RECURSIVE rstrip(_)
rstrip(str) ==
    IF str # << >> /\ str[Len(str)] \in { SPACE, NL }
    THEN rstrip(SubSeq(str, 1, Len(str) - 1))
    ELSE str

\* final_code[:-1]
drop_last(final) == PySlice(final, 0, -1)

\* for l in lines: show-text, end-text-line
RECURSIVE std_lines(_, _)
std_lines(final, ls) ==
    IF ls = << >> THEN final
    ELSE std_lines(final \o << ShowText(sanitize(Head(ls))), END_TEXT_LINE >>, Tail(ls))

\* faulty variant: the bridge call does not depend on the label being set
bridge_always_calls(spk, char_label, narr_label) ==
    << Line("comment \"Extra Textbox\"", << spk >>),
       Line("u004213E0 0", << >>), Line("u0041A7B0 2", << >>),
       Line("u0041A7B0 1", << >>) >>
    \o (IF spk = "Narrator"
        THEN << Call(rstrip(narr_label)), Line("u004160D0", << >>) >>
        ELSE << Line("u004160D0", << >>), Call(rstrip(char_label)) >>)
    \o << Line("308 1", << >>), Line("u004213E0 1", << >>), Line("u00416120", << >>) >>

\* the bridging sequence emitted when another sub-box follows
bridge(spk, char_label, narr_label) ==
    << Line("comment \"Extra Textbox\"", << spk >>),
       Line("u004213E0 0", << >>), Line("u0041A7B0 2", << >>),
       Line("u0041A7B0 1", << >>) >>
    \o (IF spk = "Narrator"
        THEN (IF narr_label # << >> THEN << Call(rstrip(narr_label)) >> ELSE << >>)
                 \o << Line("u004160D0", << >>) >>
        ELSE << Line("u004160D0", << >> ) >>
                 \o (IF char_label # << >> THEN << Call(rstrip(char_label)) >> ELSE << >>))
    \o << Line("308 1", << >>), Line("u004213E0 1", << >>), Line("u00416120", << >>) >>

\* the loop over the sub-boxes, from sub-box b (0-based) on
RECURSIVE std_boxes(_, _, _, _, _, _)
std_boxes(final, boxes_, b, spk, char_label, narr_label) ==
    IF b >= Len(boxes_) THEN final
    ELSE LET ls == PySplit(PyAt(boxes_, b), NL)
             shown == drop_last(std_lines(Append(final, BLANK), ls))
             closed == shown \o << WAIT_FOR_INPUT, END_TEXT_LINE, BLANK >>
             bridged == IF b # Len(boxes_) - 1
                        THEN closed \o bridge(spk, char_label, narr_label)
                        ELSE closed
         IN  std_boxes(bridged, boxes_, b + 1, spk, char_label, narr_label)

create_text_box_code(boxes_, spk, char_label, narr_label) ==
    std_boxes(<< >>, boxes_, 0, spk, char_label, narr_label)

\* for l in lines: show-text, concat, end-text-line
RECURSIVE concat_lines(_, _)
concat_lines(final, ls) ==
    IF ls = << >> THEN final
    ELSE concat_lines(final \o << ShowText(Head(ls)), ConcatText(sanitize(Head(ls))),
                                  END_TEXT_LINE >>,
                      Tail(ls))

RECURSIVE concat_boxes(_, _, _)
concat_boxes(final, boxes_, b) ==
    IF b >= Len(boxes_) THEN final
    ELSE LET ls == PySplit(PyAt(boxes_, b), NL)
             shown == Append(drop_last(concat_lines(Append(final, BLANK), ls)), BLANK)
             ended == IF b # Len(boxes_) - 1
                      THEN Append(drop_last(shown), END_TEXT_LINE)
                      ELSE shown
         IN  concat_boxes(ended, boxes_, b + 1)

create_text_box_code_concat(boxes_) == concat_boxes(<< >>, boxes_, 0)

\* faulty variant: the loop over the sub-boxes is not left after the first
create_text_box_code_SG_all(boxes_) ==
    LET RECURSIVE all(_, _)
        all(final, b) ==
            IF b >= Len(boxes_) THEN final
            ELSE all(Append(std_lines(Append(final, BLANK), PySplit(PyAt(boxes_, b), NL)),
                            BLANK),
                     b + 1)
    IN  all(<< >>, 0)

\* the first sub-box only: the loop breaks at the end of its first iteration
create_text_box_code_SG(boxes_) ==
    IF boxes_ = << >> THEN << >>
    ELSE Append(std_lines(<< BLANK >>, PySplit(PyAt(boxes_, 0), NL)), BLANK)

\* the texts of a sub-box
SubBoxTexts == SeqsUpTo(GenChars, MaxSubBoxLen)

InitCodegen ==
    /\ en_container \in SeqsUpTo(SubBoxTexts, MaxSubBoxes) \ { << >> }
    /\ speaker = "Narrator"
    /\ current_char_label = << >>
    /\ current_narr_label = << >>
    /\ gen_variant = "none"
    /\ final_code = << >>

\* code_map[bid] = create_text_box_code(en_container, jp_box["speaker"]), for
\* any speaker of the box and any labels init_labels left in the two globals
CreateTextBoxCode ==
    /\ pc = "codegen"
    /\ speaker' \in GenSpeakers
    /\ current_char_label' \in CharLabels
    /\ current_narr_label' \in NarrLabels
    /\ final_code' =
           create_text_box_code(en_container, speaker', current_char_label',
                                current_narr_label')
    /\ gen_variant' = "standard"
    /\ pc' = "generated"
    /\ UNCHANGED en_container
    /\ UNCHANGED scriptVars /\ UNCHANGED layoutVars /\ UNCHANGED collapseVars
    /\ UNCHANGED labelVars /\ UNCHANGED sceneVars

\* code_map[bid] = create_text_box_code_concat(en_container)
CreateTextBoxCodeConcat ==
    /\ pc = "codegen"
    /\ final_code' = create_text_box_code_concat(en_container)
    /\ gen_variant' = "concat"
    /\ pc' = "generated"
    /\ UNCHANGED << en_container, speaker, current_char_label, current_narr_label >>
    /\ UNCHANGED scriptVars /\ UNCHANGED layoutVars /\ UNCHANGED collapseVars
    /\ UNCHANGED labelVars /\ UNCHANGED sceneVars

\* code_map[bid] = create_text_box_code_SG(en_container)
CreateTextBoxCodeSG ==
    /\ pc = "codegen"
    /\ final_code' = create_text_box_code_SG(en_container)
    /\ gen_variant' = "SG"
    /\ pc' = "generated"
    /\ UNCHANGED << en_container, speaker, current_char_label, current_narr_label >>
    /\ UNCHANGED scriptVars /\ UNCHANGED layoutVars /\ UNCHANGED collapseVars
    /\ UNCHANGED labelVars /\ UNCHANGED sceneVars

InitCodegenIdle ==
    /\ en_container = << >>
    /\ speaker = "Narrator"
    /\ current_char_label = << >>
    /\ current_narr_label = << >>
    /\ gen_variant = "none"
    /\ final_code = << >>

(***************************************************************************)
(* Reconstruction of all scenes: reinsert_translations and                 *)
(* replace_manual_strings (process/reinsert.py).                           *)
(*                                                                         *)
(* The files of a scene are read when the loop reaches the scene.  An      *)
(* exception leaves reinsert_translations: nothing in it, and nothing in   *)
(* main.py around its call, catches one.                                   *)
(***************************************************************************)
SET_JP == "set-string (global-string 5) \"jp\""
SET_OLD_INDENTED == "  set-string (global-string 5) \"old\""
SET_NEW == "set-string (global-string 5) \"new\""
SET_BARE_INDENTED == "  set-string (global-string 5) 0"

\* the decompiled scripts of the scenes: one box; two boxes of two speakers;
\* two boxes of one speaker; a box whose body ends the script; a script with
\* one occurrence of each label template
SceneScripts ==
    { << SET_JP, MARKER, SHOW0, OTHER_LINE >>,
      << MARKER, SHOW0, LOOKUP, MOV_1A, MARKER, SHOW0, SET_JP >>,
      << SET_JP, MARKER, SHOW0, MARKER, SHOW0, OTHER_LINE >>,
      << MARKER, SHOW0 >>,
      << LABEL_LINE, ADD_6625, MARKER, SHOW0, OTHER_LINE, U004160D0, MOV_6622 >> }

\* the text of a box of the per-scene YAML
JP_TEXT == << "j" >>

\* a box of the per-scene YAML: speaker, text and offset of a TextBox
box_dict(tb) == [ speaker |-> tb.speaker, text |-> JP_TEXT, offset |-> tb.offset ]

box_dicts(tbs) == [ k \in 1..Len(tbs) |-> box_dict(tbs[k]) ]

\* what $$full_script.yaml may hold for a scene whose chunks are cs: the
\* chunks, the chunks without the last one, the chunks with another speaker
\* on the first one
FullScripts(cs) ==
    { cs }
        \cup (IF cs = << >> THEN { }
              ELSE { SubSeq(cs, 1, Len(cs) - 1),
                     [ cs EXCEPT ![1].speaker = "Luiri" ] })

\* a record of the "translations" list of <scene>.yaml
translation(id) == [ id |-> id, text |-> [ k \in 1..id |-> "a" ] ]

\* the "translations" lists: records of pairwise different ids, in any order
TranslationLists ==
    { [ k \in 1..Len(ids) |-> translation(ids[k]) ] :
          ids \in { s \in SeqsUpTo(1..MaxChunkId, MaxRecords) :
                        \A a, b \in 1..Len(s) : a # b => s[a] # s[b] } }

\* edited_script: None when <scene>.txt does not exist, else its lines
NoEditedScript == [ exists |-> FALSE, lines |-> << >> ]
EditedScript(lns) == [ exists |-> TRUE, lines |-> lns ]

\* a manual edit of a line: the payload of a set-string is rewritten, a
\* show-text is translated
edit_quoted(ln) ==
    IF ln = SET_JP THEN SET_OLD_INDENTED ELSE IF ln = SHOW0 THEN EN_SHOW ELSE ln

edit_bare(ln) == IF ln = SET_JP THEN SET_BARE_INDENTED ELSE ln

\* the edited scripts there may be for a scene: none, an empty file, the
\* script itself, the script with edited lines, and scripts of another
\* number of lines
EditedScripts(script) ==
    { NoEditedScript, EditedScript(<< >>), EditedScript(script),
      EditedScript([ k \in 1..Len(script) |-> edit_quoted(script[k]) ]),
      EditedScript([ k \in 1..Len(script) |-> edit_bare(script[k]) ]),
      EditedScript(Append(script, OTHER_LINE)),
      EditedScript(Tail(script)) }

\* `if edited_script:` None and the empty list are both false
truthy(edited) == edited.exists /\ edited.lines # << >>

\* edited_line.strip().startswith("set-string")
StartsWithSetString(ln) == ln \in { SET_JP, SET_OLD_INDENTED, SET_NEW, SET_BARE_INDENTED }

\* edited_line.strip().count('"') > 1
HasQuotedPayload(ln) == ln \in { SET_JP, SET_OLD_INDENTED, SET_NEW }

\* '"'.join(split) of the stripped line with replace_str applied to the
\* payload, for rep_dict = {"old": "new"}
replace_payload(ln) == IF ln = SET_OLD_INDENTED THEN SET_NEW ELSE ln

\* one iteration of the loop of replace_manual_strings
overlay_line(orig_line, edited_line) ==
    IF orig_line # edited_line /\ StartsWithSetString(edited_line)
    THEN IF HasQuotedPayload(edited_line) THEN replace_payload(edited_line)
         ELSE edited_line
    ELSE orig_line

\* faulty variant: scripts of different lengths are zipped without a check
length_mismatch_ignored(script, edited_lines) == FALSE

\* len(final_en_script) != len(edited_script)
length_mismatch(script, edited_lines) == Len(script) # Len(edited_lines)

\* replace_manual_strings when the lengths agree
replace_manual_strings(script, edited_lines) ==
    [ k \in 1..Min(Len(script), Len(edited_lines)) |-> overlay_line(script[k], edited_lines[k]) ]

\* str.strip()
strip(str) == Reverse(rstrip(Reverse(rstrip(str))))

\* "\n".join(jp_texts_acc).strip()
full_box_of(run) == strip(PyJoin([ k \in 1..Len(run) |-> run[k].text ], NL))

\* the second loop of craft_into_script over a list the caller does not
\* share: raised when the scan for the end of a box leaves the script
RECURSIVE splice_loop(_, _, _, _, _)
splice_loop(script, run, k, pos, code_map) ==
    IF k > Len(run)
    THEN [ raised |-> FALSE, script |-> script, position |-> pos ]
    ELSE LET text_box_start == resolve_start(pos, run[k].offset)
             text_box_end == scan_end(script, text_box_start)
         IN  IF text_box_end = -1
             THEN [ raised |-> TRUE, script |-> script, position |-> pos ]
             ELSE splice_loop(splice(script, text_box_start, text_box_end, code_map[k]),
                              run, k + 1, next_position(text_box_start, code_map[k]),
                              code_map)

\* craft_into_script: (position, final_en_script), or raised (IndexError)
craft_into_script(script, run, name, offset, code_map) ==
    IF concat_pass(script, run, name, 1, offset, FALSE, << >>).raised
    THEN [ raised |-> TRUE, script |-> script, position |-> offset ]
    ELSE splice_loop(script, run, 1, offset, code_map)

\* the code_map craft_into_script builds for a run: one block per box, here
\* of one line
CodeMaps(run) == [ 1..Len(run) -> { << EN_SHOW >> } ]

\* next(full_iter), next(en_iter) and the two assertions of a flush: the
\* exception raised, "none" when the run goes on to craft_into_script
flush_check(run, full_boxes, full_pos, records, en_pos) ==
    IF full_pos >= Len(full_boxes) \/ en_pos >= Len(records)
    THEN "RuntimeError"
    ELSE IF \/ full_boxes[full_pos + 1].speaker # run[1].speaker
            \/ strip(full_boxes[full_pos + 1].text) # strip(full_box_of(run))
         THEN "AssertionError"
         ELSE "none"

\* the flush of the accumulated run: next(full_iter), the two assertions,
\* and the run handed to craft_into_script with the id of the record taken
flush_run(st, full_boxes) ==
    IF st.full_iter >= Len(full_boxes)
    THEN [ st EXCEPT !.error = "RuntimeError" ]
    ELSE LET jp_full == full_boxes[st.full_iter + 1]
         IN  IF \/ << jp_full.speaker >> # st.current_speaker
                \/ strip(jp_full.text) # strip(full_box_of(st.jp_boxes_acc))
             THEN [ st EXCEPT !.error = "AssertionError" ]
             ELSE [ st EXCEPT !.full_iter = @ + 1,
                              !.runs = Append(@, [ id |-> jp_full.id,
                                                   boxes |-> st.jp_boxes_acc ]) ]

\* the accumulators are reset to begin a new run with the current box
begin_run(st, box) ==
    IF st.error # "none" THEN st
    ELSE [ st EXCEPT !.jp_boxes_acc = << box >>, !.current_speaker = << box.speaker >> ]

\* one iteration of `for b, box in enumerate(jp_iter)` over n boxes
flush_box(st, box, b, n, full_boxes) ==
    LET s1 == [ st EXCEPT !.current_speaker =
                              IF @ = << >> THEN << box.speaker >> ELSE @ ]
    IN  IF << box.speaker >> = s1.current_speaker
        THEN LET s2 == [ s1 EXCEPT !.jp_boxes_acc = Append(@, box) ]
             IN  IF b # n - 1 THEN s2
                 ELSE begin_run(flush_run(s2, full_boxes), box)
        ELSE begin_run(flush_run([ s1 EXCEPT !.last_pass = IF b = n - 1 THEN TRUE ELSE @ ],
                                 full_boxes),
                       box)

RECURSIVE flush_loop(_, _, _, _)
flush_loop(st, bxs, b, full_boxes) ==
    IF st.error # "none" \/ b >= Len(bxs) THEN st
    ELSE flush_loop(flush_box(st, bxs[b + 1], b, Len(bxs), full_boxes), bxs, b + 1,
                    full_boxes)

\* faulty variant: the run left pending by a last box of another speaker is
\* not flushed
flush_boxes_without_last_pass(bxs, full_boxes) ==
    flush_loop(NothingFlushed, bxs, 0, full_boxes)

\* the loop over the boxes of a scene and the flush of the pending run
flush_boxes(bxs, full_boxes) ==
    LET st == flush_loop(NothingFlushed, bxs, 0, full_boxes)
    IN  IF st.error = "none" /\ st.last_pass THEN flush_run(st, full_boxes) ELSE st

\* reinsert_translations walks the boxes of a scene whose $$full_script.yaml
\* entry holds the chunks _collapse_boxes made of them
FlushBoxes ==
    /\ pc = "collapsed"
    /\ flushed' = flush_boxes(in_boxes, chunks)
    /\ pc' = "flushed"
    /\ UNCHANGED << in_boxes, chunks >>
    /\ UNCHANGED scriptVars /\ UNCHANGED layoutVars
    /\ UNCHANGED extraVars

\* faulty variant: the script is written although boxes are left
boxes_exhausted_early(pos, bxs) == TRUE

\* the loop over jp_iter has ended: every box of jp_boxes was taken
boxes_exhausted(pos, bxs) == pos = Len(bxs)

\* faulty variant: a label found in an earlier script is kept when the
\* script of the scene has none
label_kept_when_absent(old, found) == IF found = "" THEN old ELSE found

\* current_char_label = ..., current_narr_label = ...: the global is bound
\* to what find_label_before returned
label_assigned(old, found) == found

\* init_labels(full_code): the two globals after the call
init_labels(full_code, char_label, narr_label) ==
    [ char |-> label_assigned(char_label,
                   find_label_before(full_code, new_char_text_box_label_template)),
      narr |-> label_assigned(narr_label,
                   find_label_before(full_code, new_narr_text_box_label_template)) ]

\* code_utils as imported: both labels are the empty string
InitCodeUtils ==
    /\ en_container = << >>
    /\ speaker = "Narrator"
    /\ current_char_label = ""
    /\ current_narr_label = ""
    /\ gen_variant = "none"
    /\ final_code = << >>

InitScenes ==
    /\ n_scenes \in 1..MaxScenes
    /\ scene_no = 0
    /\ jp_script = << >>
    /\ scene_jp_boxes = << >>
    /\ jp_full_boxes = << >>
    /\ translations = << >>
    /\ edited_script = NoEditedScript
    /\ jp_iter = 0
    /\ full_iter = 0
    /\ en_iter = 0
    /\ out_files = << >>
    /\ error = "none"
    /\ spliced = << >>

scriptRest == << lines, boxes, origin, position, jp_box_dicts, i, nxt, variant, last >>

\* the head of the loop over the scenes: the files of the next scene are
\* read, the working script is a copy of the decompiled script
LoadScene ==
    /\ pc = "scenes"
    /\ scene_no < n_scenes
    /\ scene_no' = scene_no + 1
    /\ scene_id' \in SceneIds
    /\ \E script \in SceneScripts :
         /\ ~extract_boxes(script, scene_id').raised
         /\ jp_script' = script
         /\ scene_jp_boxes' = box_dicts(extract_boxes(script, scene_id').boxes)
         /\ final_en_script' = script
         /\ edited_script' \in EditedScripts(script)
    /\ jp_full_boxes' \in FullScripts(collapse_boxes(scene_jp_boxes'))
    /\ translations' \in TranslationLists
    /\ jp_iter' = 0
    /\ full_iter' = 0
    /\ en_iter' = 0
    /\ starting_offset' = 0
    /\ spliced' = << >>
    /\ current_char_label' =
           init_labels(jp_script', current_char_label, current_narr_label).char
    /\ current_narr_label' =
           init_labels(jp_script', current_char_label, current_narr_label).narr
    /\ pc' = "overlay"
    /\ UNCHANGED << n_scenes, out_files, error >>
    /\ UNCHANGED scriptRest /\ UNCHANGED layoutVars /\ UNCHANGED collapseVars
    /\ UNCHANGED labelVars
    /\ UNCHANGED << en_container, speaker, gen_variant, final_code >>

\* if edited_script: final_en_script = replace_manual_strings(...)
OverlayManualStrings ==
    /\ pc = "overlay"
    /\ ~(truthy(edited_script) /\ length_mismatch(final_en_script, edited_script.lines))
    /\ final_en_script' =
           IF truthy(edited_script)
           THEN replace_manual_strings(final_en_script, edited_script.lines)
           ELSE final_en_script
    /\ pc' = "boxes"
    /\ UNCHANGED << scene_id, starting_offset >>
    /\ UNCHANGED sceneVars
    /\ UNCHANGED scriptRest /\ UNCHANGED layoutVars /\ UNCHANGED collapseVars
    /\ UNCHANGED labelVars /\ UNCHANGED codegenVars

\* replace_manual_strings raises ValueError
OverlayRaises ==
    /\ pc = "overlay"
    /\ truthy(edited_script)
    /\ length_mismatch(final_en_script, edited_script.lines)
    /\ error' = "ValueError"
    /\ pc' = "failed"
    /\ UNCHANGED << scene_id, final_en_script, starting_offset >>
    /\ UNCHANGED << n_scenes, scene_no, jp_script, scene_jp_boxes, jp_full_boxes, translations,
                    edited_script, jp_iter, full_iter, en_iter, out_files, spliced >>
    /\ UNCHANGED scriptRest /\ UNCHANGED layoutVars /\ UNCHANGED collapseVars
    /\ UNCHANGED labelVars /\ UNCHANGED codegenVars

\* a run of boxes of one speaker is flushed: the next full chunk and the
\* next translation record are taken and craft_into_script splices the run
FlushRun ==
    /\ pc = "boxes"
    /\ ~boxes_exhausted(jp_iter, scene_jp_boxes)
    /\ LET run == speaker_run(scene_jp_boxes, jp_iter)
       IN  /\ flush_check(run, jp_full_boxes, full_iter, translations, en_iter) = "none"
           /\ \E code_map \in CodeMaps(run) :
                LET crafted == craft_into_script(final_en_script, run, scene_id,
                                                 starting_offset, code_map)
                    jp_full == jp_full_boxes[full_iter + 1]
                    en_full == translations[en_iter + 1]
                IN  /\ ~crafted.raised
                    /\ final_en_script' = crafted.script
                    /\ starting_offset' = crafted.position
                    /\ spliced' = Append(spliced, [ chunk |-> jp_full.id,
                                                   text_id |-> en_full.id,
                                                   text |-> en_full.text,
                                                   char_label |-> current_char_label,
                                                   narr_label |-> current_narr_label ])
           /\ jp_iter' = jp_iter + Len(run)
    /\ full_iter' = full_iter + 1
    /\ en_iter' = en_iter + 1
    /\ pc' = "boxes"
    /\ UNCHANGED scene_id
    /\ UNCHANGED << n_scenes, scene_no, jp_script, scene_jp_boxes, jp_full_boxes, translations,
                    edited_script, out_files, error >>
    /\ UNCHANGED scriptRest /\ UNCHANGED layoutVars /\ UNCHANGED collapseVars
    /\ UNCHANGED labelVars /\ UNCHANGED codegenVars

\* the flush of a run raises: RuntimeError when an iterator is exhausted,
\* AssertionError when the full chunk is not the run, IndexError in
\* craft_into_script
FlushRaises ==
    /\ pc = "boxes"
    /\ ~boxes_exhausted(jp_iter, scene_jp_boxes)
    /\ LET run == speaker_run(scene_jp_boxes, jp_iter)
           checked == flush_check(run, jp_full_boxes, full_iter, translations, en_iter)
       IN  \/ /\ checked # "none"
              /\ error' = checked
           \/ /\ checked = "none"
              /\ \E code_map \in CodeMaps(run) :
                     craft_into_script(final_en_script, run, scene_id, starting_offset,
                                       code_map).raised
              /\ error' = "IndexError"
    /\ pc' = "failed"
    /\ UNCHANGED << scene_id, final_en_script, starting_offset >>
    /\ UNCHANGED << n_scenes, scene_no, jp_script, scene_jp_boxes, jp_full_boxes, translations,
                    edited_script, jp_iter, full_iter, en_iter, out_files, spliced >>
    /\ UNCHANGED scriptRest /\ UNCHANGED layoutVars /\ UNCHANGED collapseVars
    /\ UNCHANGED labelVars /\ UNCHANGED codegenVars

\* (out_path / (scene_name + ".txt")).write_text("\n".join(final_en_script)):
\* the iteration of the scene ends with the write, and the next iteration
\* rebinds every local of the loop body, so none of them is kept
WriteSceneFile ==
    /\ pc = "boxes"
    /\ boxes_exhausted(jp_iter, scene_jp_boxes)
    /\ out_files' = [ s \in DOMAIN out_files \cup { scene_no } |->
                          IF s = scene_no THEN final_en_script ELSE out_files[s] ]
    /\ scene_id' = "SC0001"
    /\ final_en_script' = << >>
    /\ starting_offset' = 0
    /\ jp_script' = << >>
    /\ scene_jp_boxes' = << >>
    /\ jp_full_boxes' = << >>
    /\ translations' = << >>
    /\ edited_script' = NoEditedScript
    /\ jp_iter' = 0
    /\ full_iter' = 0
    /\ en_iter' = 0
    /\ spliced' = << >>
    /\ pc' = "scenes"
    /\ UNCHANGED << n_scenes, scene_no, error >>
    /\ UNCHANGED scriptRest /\ UNCHANGED layoutVars /\ UNCHANGED collapseVars
    /\ UNCHANGED labelVars /\ UNCHANGED codegenVars

InitSceneIdle ==
    /\ n_scenes = 0
    /\ scene_no = 0
    /\ jp_script = << >>
    /\ scene_jp_boxes = << >>
    /\ jp_full_boxes = << >>
    /\ translations = << >>
    /\ edited_script = NoEditedScript
    /\ jp_iter = 0
    /\ full_iter = 0
    /\ en_iter = 0
    /\ out_files = << >>
    /\ error = "none"
    /\ spliced = << >>

InitExtraIdle == InitLabelIdle /\ InitCodegenIdle /\ InitSceneIdle

(***************************************************************************)
(* Detection and splicing of one scene.                                    *)
(***************************************************************************)
Init ==
    /\ pc = "start"
    /\ InitScript
    /\ InitLayoutIdle
    /\ InitCollapseIdle
    /\ InitExtraIdle

Next ==
    \/ ExtractReturns
    \/ ExtractRaises
    \/ CraftBegin
    \/ SpliceBox
    \/ CraftReturn
    \/ WriteScene

Spec == Init /\ [][Next]_vars

(***************************************************************************)
(* Detection alone: extract_boxes applied to every script.                 *)
(***************************************************************************)
NextExtract ==
    \/ ExtractReturns
    \/ ExtractRaises

SpecExtract == Init /\ [][NextExtract]_vars

(***************************************************************************)
(* Layout alone: create_english_box applied to every translated text.      *)
(***************************************************************************)
InitL ==
    /\ pc = "layout"
    /\ InitScriptIdle
    /\ InitLayout
    /\ InitCollapseIdle
    /\ InitExtraIdle

NextLayout == CreateEnglishBox

SpecLayout == InitL /\ [][NextLayout]_vars

(***************************************************************************)
(* Collapsing alone: _collapse_boxes applied to every box list.            *)
(***************************************************************************)
InitC ==
    /\ pc = "collapse"
    /\ InitScriptIdle
    /\ InitLayoutIdle
    /\ InitCollapse
    /\ InitExtraIdle

NextCollapse ==
    \/ CollapseBoxes
    \/ FlushBoxes

SpecCollapse == InitC /\ [][NextCollapse]_vars

(***************************************************************************)
(* Label discovery alone: find_label_before applied to every script.       *)
(***************************************************************************)
InitLb ==
    /\ pc = "label"
    /\ InitScriptIdle
    /\ InitLayoutIdle
    /\ InitCollapseIdle
    /\ InitLabel
    /\ InitCodegenIdle
    /\ InitSceneIdle

NextLabel == FindLabelBefore

SpecLabel == InitLb /\ [][NextLabel]_vars

(***************************************************************************)
(* Code generation alone: the three generators applied to every container. *)
(***************************************************************************)
InitG ==
    /\ pc = "codegen"
    /\ InitScriptIdle
    /\ InitLayoutIdle
    /\ InitCollapseIdle
    /\ InitLabelIdle
    /\ InitCodegen
    /\ InitSceneIdle

NextCodegen ==
    \/ CreateTextBoxCode
    \/ CreateTextBoxCodeConcat
    \/ CreateTextBoxCodeSG

SpecCodegen == InitG /\ [][NextCodegen]_vars

(***************************************************************************)
(* Reconciliation alone: reconcile applied to every list of containers.    *)
(***************************************************************************)
InitR ==
    /\ pc = "reconcile"
    /\ InitScriptIdle
    /\ InitReconcile
    /\ InitCollapseIdle
    /\ InitExtraIdle

NextReconcile == Reconcile

SpecReconcile == InitR /\ [][NextReconcile]_vars

(***************************************************************************)
(* Reconstruction of all scenes: reinsert_translations.                    *)
(***************************************************************************)
InitS ==
    /\ pc = "scenes"
    /\ InitScriptIdle
    /\ InitLayoutIdle
    /\ InitCollapseIdle
    /\ InitLabelIdle
    /\ InitCodeUtils
    /\ InitScenes

NextScenes ==
    \/ LoadScene
    \/ OverlayManualStrings
    \/ OverlayRaises
    \/ FlushRun
    \/ FlushRaises
    \/ WriteSceneFile

SpecScenes == InitS /\ [][NextScenes]_vars

(***************************************************************************)
(* Reference reading of a script, independent of the scan: where boxes     *)
(* start, where their bodies end, which lines capture a speaker id.        *)
(***************************************************************************)
\* line k is a marker and line k+1 a show-text 0 line
RefIsStart(lns, name, k) ==
    /\ PyInRange(lns, k) /\ k >= 0
    /\ is_box_start(Strip(PyAt(lns, k)), name)
    /\ k + 1 < Len(lns)
    /\ StartsWithShowText(PyAt(lns, k + 1))
    /\ IsTextCmd(Strip(PyAt(lns, k + 1)))

RefStarts(lns, name) == { k \in 0..(Len(lns) - 1) : RefIsStart(lns, name, k) }

\* the box starts from index k on, in increasing order
RECURSIVE RefStartSeq(_, _, _)
RefStartSeq(lns, name, k) ==
    IF k >= Len(lns) THEN << >>
    ELSE IF RefIsStart(lns, name, k)
         THEN << k >> \o RefStartSeq(lns, name, k + 1)
         ELSE RefStartSeq(lns, name, k + 1)

\* index of the marker of the b-th box (b from 1)
RefStartOf(lns, name, b) == RefStartSeq(lns, name, 0)[b]

\* index of the last line of the maximal run of TEXT_CMDS lines after marker k
RefLastBody(lns, k) ==
    CHOOSE e \in (k + 1)..(Len(lns) - 1) :
        /\ (e + 1 = Len(lns) \/ ~IsTextCmd(Strip(PyAt(lns, e + 1))))
        /\ \A j \in (k + 1)..e : IsTextCmd(Strip(PyAt(lns, j)))

\* line j holds the mov that follows a lookup line directly
RefIsCapture(lns, j) ==
    /\ j >= 1 /\ j < Len(lns)
    /\ LookupMatches(Strip(PyAt(lns, j - 1)))
    /\ MovMatches(Strip(PyAt(lns, j)))

\* index of the line at which the b-th box is closed (Len(lns) at end of
\* input), -1 for b = 0
RefCloseOf(lns, name, b) ==
    IF b = 0 THEN -1 ELSE RefLastBody(lns, RefStartOf(lns, name, b)) + 1

\* the captures between the close of box b-1 (exclusive) and of box b
RefCaptures(lns, name, b) ==
    { j \in (RefCloseOf(lns, name, b - 1) + 1)..RefCloseOf(lns, name, b) :
        RefIsCapture(lns, j) }

SetMax(S) == CHOOSE x \in S : \A y \in S : y <= x

Extracted == pc \notin { "start", "extract_error" }

(***************************************************************************)
(* C1.  For the boxes extract_boxes returned, spliced in order with the    *)
(* cursor carried from box to box and from run to run and replacement      *)
(* blocks of any length: the start index resolved for a box (cursor +      *)
(* offset) is the index, in the working script, of the marker that opened  *)
(* the box, and the slice a splice replaces is the box's original body.    *)
(***************************************************************************)
C1_StartIsMarkerSliceIsBody ==
    last.kind \in { "splice", "raise" } =>
        LET m == RefStartOf(lines, scene_id, last.box)
            body == RefLastBody(lines, m) - m
        IN  /\ last.s >= 0 /\ last.s < Len(last.old)
            /\ PyAt(last.oldorigin, last.s) = m
            /\ PyAt(last.old, last.s) = PyAt(lines, m)
            /\ last.kind = "splice" =>
                 SubSeq(last.oldorigin, last.s + 2, last.e)
                     = [ j \in 1..body |-> m + j ]

\* the second box of a scene is spliced at an index that differs from its
\* marker's index in the original script
C1_Witness ==
    /\ last.kind = "splice"
    /\ last.box >= 2
    /\ last.s # RefStartOf(lines, scene_id, last.box)
    /\ last.e - last.s - 1 # Len(last.B)

(***************************************************************************)
(* C2.  The start index resolved for a box is never smaller than the       *)
(* cursor left by the previous splice, and the cursor craft_into_script    *)
(* returns is never smaller than the cursor it was given.                  *)
(***************************************************************************)
C2_CursorMonotone ==
    /\ last.kind \in { "splice", "raise" } => last.s >= last.cursor
    /\ last.kind = "return" => last.returned >= last.given
    /\ pc = "craft" => position >= starting_offset

C2_Witness ==
    /\ last.kind = "return"
    /\ last.given > 0
    /\ last.returned > last.given

(***************************************************************************)
(* C3.  A splice with start s, exclusive end e and block B keeps the lines *)
(* 0..s and the lines from e on, in order, puts B between them, makes the  *)
(* length old - (e - s - 1) + Len(B) and sets the cursor to s + Len(B).    *)
(***************************************************************************)
C3_SpliceFrame ==
    last.kind = "splice" =>
        LET s == last.s
            e == last.e
            B == last.B
            old == last.old
            new == final_en_script
        IN  /\ Len(new) = Len(old) - (e - s - 1) + Len(B)
            /\ \A k \in 0..s : PyAt(new, k) = PyAt(old, k)
            /\ \A k \in 1..Len(B) : PyAt(new, s + k) = B[k]
            /\ \A k \in e..(Len(old) - 1) :
                 PyAt(new, k - e + s + 1 + Len(B)) = PyAt(old, k)
            /\ position = s + Len(B)

C3_Witness ==
    /\ last.kind = "splice"
    /\ last.s > 0
    /\ last.e < Len(last.old)
    /\ Len(last.B) > last.e - last.s - 1

(***************************************************************************)
(* C8.  Every box extract_boxes emits has offset >= 0 and idx equal to its *)
(* 1-based position; the first offset is the index of the first marker,    *)
(* every later offset is the index of the box's marker minus the index of  *)
(* the last body line of the previous box.                                 *)
(***************************************************************************)
C8_OffsetsAndIdx ==
    Extracted =>
        \A b \in 1..Len(boxes) :
            /\ boxes[b].offset >= 0
            /\ boxes[b].idx = b
            /\ b = 1 => boxes[b].offset = RefStartOf(lines, scene_id, 1)
            /\ b > 1 => boxes[b].offset =
                   RefStartOf(lines, scene_id, b)
                       - RefLastBody(lines, RefStartOf(lines, scene_id, b - 1))

C8_Witness ==
    /\ Extracted
    /\ Len(boxes) >= 2
    /\ boxes[2].offset > 1

(***************************************************************************)
(* C9.  A marker that is not followed by a show-text line, the marker on   *)
(* the last line of the script included, never starts a box, and           *)
(* extract_boxes goes on and returns the boxes of the rest of the script.  *)
(***************************************************************************)
C9_UnconfirmedMarkerSkipped ==
    pc # "start" =>
        /\ pc # "extract_error"
        /\ Len(boxes) = Cardinality(RefStarts(lines, scene_id))
        /\ \A b \in 1..Len(boxes) :
             boxes[b].raw =
                 SubSeq(lines, RefStartOf(lines, scene_id, b) + 1,
                        RefLastBody(lines, RefStartOf(lines, scene_id, b)) + 1)

(***************************************************************************)
(* C10.  The speaker of a box is the name-table entry of the id captured   *)
(* since the previous box was closed, and "Narrator" when no id was        *)
(* captured in that interval or the id is not in the name table.           *)
(***************************************************************************)
C10_SpeakerOfBox ==
    Extracted =>
        \A b \in 1..Len(boxes) :
            LET caps == RefCaptures(lines, scene_id, b)
                id == MovId(Strip(PyAt(lines, SetMax(caps))))
            IN  boxes[b].speaker =
                    IF caps = { } THEN "Narrator"
                    ELSE IF id \in DOMAIN name_map THEN name_map[id]
                    ELSE "Narrator"

\* a box named by a captured id, followed by a box with no capture of its
\* own, which is the narrator's
C10_Witness ==
    /\ Extracted
    /\ Len(boxes) >= 2
    /\ \E b \in 1..(Len(boxes) - 1) :
         /\ boxes[b].speaker = "Marc"
         /\ RefCaptures(lines, scene_id, b + 1) = { }
         /\ boxes[b + 1].speaker = "Narrator"

(***************************************************************************)
(* Layout claims.                                                          *)
(***************************************************************************)
LaidOut == pc = "laid_out"

\* the lines of a sub-box
SubBoxLines(sub_box) == PySplit(sub_box, NL)

\* every sub-box of every container of conts
SubBoxesOf(conts) ==
    UNION { { conts[c][b] : b \in 1..Len(conts[c]) } : c \in 1..Len(conts) }

\* C4: create_english_box returns one container per box of the run, for a
\* run of n >= 1 boxes and any translated text, and no container is empty.
C4_OneContainerPerBox ==
    LaidOut =>
        /\ Len(en_containers) = Len(jp_texts)
        /\ \A c \in 1..Len(en_containers) : Len(en_containers[c]) >= 1

\* fewer text lines than boxes and too few sub-boxes to pop: a container
\* had to be padded with the empty string
C4_Witness ==
    /\ LaidOut
    /\ Len(wrapped) < Len(jp_texts)
    /\ Len(Flatten(wrapped)) < Len(jp_texts)
    /\ en_containers[Len(en_containers)] = << << >> >>

\* C5: every line of every sub-box correct_en_box returns has visual width
\* (wide code points counted as 2) at most line_length.
C5_LineWidthWithinBudget ==
    LaidOut =>
        \A sb \in SubBoxesOf(wrapped) :
            \A k \in 1..Len(SubBoxLines(sb)) :
                measure_text_width(SubBoxLines(sb)[k]) <= line_length

\* C6: every sub-box correct_en_box returns has at most text_lines lines,
\* and so has every sub-box of every container after reconcile.
C6_LineCountWithinBudget ==
    LaidOut =>
        /\ \A sb \in SubBoxesOf(wrapped) : Len(SubBoxLines(sb)) <= text_lines
        /\ \A sb \in SubBoxesOf(en_containers) : Len(SubBoxLines(sb)) <= text_lines

\* a full sub-box was flushed and reconcile moved sub-boxes between
\* containers
C6_Witness ==
    /\ LaidOut
    /\ text_lines >= 2
    /\ en_containers # wrapped
    /\ \E sb \in SubBoxesOf(en_containers) : Len(SubBoxLines(sb)) = text_lines
    /\ Len(Flatten(en_containers)) >= 2

(***************************************************************************)
(* C7.  _collapse_boxes returns the maximal runs of consecutive boxes of   *)
(* one speaker: every box is in exactly one chunk, in order; adjacent      *)
(* chunks differ in speaker; ids are 1..m; a chunk's text is the newline   *)
(* join of its boxes' texts; no box gives no chunk, and the last run is    *)
(* emitted although no speaker change follows it.                          *)
(***************************************************************************)
\* number of boxes a chunk was made of: their texts hold no line break
RunLen(chunk) == Len(PySplit(chunk.text, NL))

\* number of boxes in the first k chunks
RECURSIVE BoxesBefore(_, _)
BoxesBefore(cs, k) == IF k = 0 THEN 0 ELSE BoxesBefore(cs, k - 1) + RunLen(cs[k])

C7_MaximalRuns ==
    pc = "collapsed" =>
        /\ in_boxes = << >> => chunks = << >>
        /\ BoxesBefore(chunks, Len(chunks)) = Len(in_boxes)
        /\ \A k \in 1..Len(chunks) :
             LET first == BoxesBefore(chunks, k - 1) + 1
                 lst == BoxesBefore(chunks, k)
             IN  /\ chunks[k].id = k
                 /\ lst <= Len(in_boxes)
                 /\ \A b \in first..lst : in_boxes[b].speaker = chunks[k].speaker
                 /\ PySplit(chunks[k].text, NL)
                        = [ j \in 1..(lst - first + 1) |-> in_boxes[first + j - 1].text ]
                 /\ k < Len(chunks) => chunks[k].speaker # chunks[k + 1].speaker

\* a run of two boxes, a speaker change, and a last run of one box
C7_Witness ==
    /\ pc = "collapsed"
    /\ Len(in_boxes) >= 3
    /\ Len(chunks) = 2
    /\ RunLen(chunks[1]) = 2
    /\ in_boxes[Len(in_boxes)].speaker # in_boxes[Len(in_boxes) - 1].speaker

(***************************************************************************)
(* C12.  Variant selection of craft_into_script: in a scene of the SG      *)
(* family every box of the run gets the alternate-format variant whatever  *)
(* the script holds; otherwise the boxes before the first box whose concat *)
(* check is positive get the standard variant, that box and every later    *)
(* box of the run get concat-continuation, and the mode starts cleared in  *)
(* every run.                                                              *)
(***************************************************************************)
\* index the concat check of the k-th box of the run reads
RECURSIVE ConcatCheckIndex(_)
ConcatCheckIndex(k) ==
    IF k = 0 THEN starting_offset
    ELSE ConcatCheckIndex(k - 1) + jp_box_dicts[k].offset + 2

\* the concat check of the k-th box of the run is positive
ConcatCheckPositive(k) ==
    /\ PyInRange(final_en_script, ConcatCheckIndex(k))
    /\ StartsWithConcat(PyAt(final_en_script, ConcatCheckIndex(k)))

\* craft_into_script has chosen the variants of the run and spliced nothing
VariantsChosen == pc = "craft" /\ i = 0

C12_VariantSelection ==
    VariantsChosen =>
        /\ Len(variant) = Len(jp_box_dicts)
        /\ \A k \in 1..Len(variant) :
             variant[k] =
                 IF NameHasSG(scene_id) THEN "SG"
                 ELSE IF \E j \in 1..k : ConcatCheckPositive(j) THEN "concat"
                 ELSE "standard"

\* the first box of a run is standard although the run before it ended in
\* concat mode: the body of its last box held a concat line where its check
\* read
C12_Witness ==
    /\ VariantsChosen
    /\ ~NameHasSG(scene_id)
    /\ nxt >= 1
    /\ Len(boxes[nxt].raw) >= 3
    /\ StartsWithConcat(boxes[nxt].raw[3])
    /\ Len(variant) >= 1
    /\ variant[1] = "standard"

(***************************************************************************)
(* C11.  find_label_before returns the line at index i - 1 when the        *)
(* template occurs exactly once, at index i, and the empty string when it  *)
(* occurs zero times or more than once; it never returns a line that does  *)
(* not immediately precede the occurrence, in particular not when the one  *)
(* occurrence starts at index 0.                                           *)
(***************************************************************************)
\* the template occurs in cd at index m
OccursAt(cd, tpl, m) ==
    /\ m >= 0 /\ m + Len(tpl) <= Len(cd)
    /\ \A j \in 1..Len(tpl) : cd[m + j] = tpl[j]

Occurrences(cd, tpl) == { m \in 0..Len(cd) : OccursAt(cd, tpl, m) }

C11_LabelPrecedesUniqueOccurrence ==
    pc = "labelled" =>
        LET occ == Occurrences(code, label_template)
        IN  /\ Cardinality(occ) # 1 => label = ""
            /\ \A m \in occ :
                 Cardinality(occ) = 1 =>
                     IF m >= 1 THEN label = code[m] ELSE label = ""

(***************************************************************************)
(* Generated code: what the claims below say of it.                        *)
(***************************************************************************)
Generated(v) == pc = "generated" /\ gen_variant = v

\* the lines of final_code with the given fixed part
LinesWithOp(op) == { k \in 1..Len(final_code) : final_code[k].op = op }

\* show-text and end-text-line alternating over the lines of a sub-box:
\* 2n - 1 lines when no end-text-line follows the last show-text, 2n otherwise
ShownLines(sub_box, last_ended) ==
    LET ls == PySplit(sub_box, NL)
        n == Len(ls)
    IN  [ j \in 1..(IF last_ended THEN 2 * n ELSE 2 * n - 1) |->
            IF j % 2 = 1 THEN ShowText(sanitize(ls[(j + 1) \div 2]))
            ELSE END_TEXT_LINE ]

\* blank, the shown lines, wait-for-input, end-text-line, blank
StandardBlock(sub_box) ==
    << BLANK >> \o ShownLines(sub_box, FALSE)
        \o << WAIT_FOR_INPUT, END_TEXT_LINE, BLANK >>

\* the label of the speaker's kind
LabelOfKind == IF speaker = "Narrator" THEN current_narr_label ELSE current_char_label

\* the bridging sequence the claim describes
StandardBridge ==
    LET call == IF LabelOfKind # << >> THEN << Call(rstrip(LabelOfKind)) >> ELSE << >>
        reset == << Line("u004160D0", << >>) >>
    IN  << Line("comment \"Extra Textbox\"", << speaker >>),
           Line("u004213E0 0", << >>), Line("u0041A7B0 2", << >>),
           Line("u0041A7B0 1", << >>) >>
        \o (IF speaker = "Narrator" THEN call \o reset ELSE reset \o call)
        \o << Line("308 1", << >>), Line("u004213E0 1", << >>),
              Line("u00416120", << >>) >>

(***************************************************************************)
(* C13.  In every generation variant the payload of every emitted          *)
(* show-text instruction and of every emitted concat instruction holds no  *)
(* double-quote character, whatever the text of the sub-boxes.             *)
(***************************************************************************)
C13_NoQuoteInPayload ==
    pc = "generated" =>
        \A k \in 1..Len(final_code) :
            final_code[k].op \in { ShowText(<< >>).op, ConcatText(<< >>).op } =>
                \A j \in 1..Len(final_code[k].text) : final_code[k].text[j] # shitter

(***************************************************************************)
(* C14.  For a container of k >= 1 sub-boxes create_text_box_code emits,   *)
(* per sub-box, a blank line, one show-text per text line separated by     *)
(* end-text-line, then wait-for-input, end-text-line and a blank line; it  *)
(* emits k - 1 bridging sequences, one after each sub-box but the last,    *)
(* each ending with a u00416120 marker; a bridging sequence holds a call   *)
(* line exactly when the label of the speaker's kind is not empty, before  *)
(* u004160D0 for the narrator and after it for a character; a missing      *)
(* label does not make generation fail.                                    *)
(***************************************************************************)
C14_StandardBlocksAndBridges ==
    Generated("standard") =>
        LET k == Len(en_container)
        IN  /\ final_code =
                 Flatten([ b \in 1..k |->
                             StandardBlock(en_container[b])
                                 \o (IF b < k THEN StandardBridge ELSE << >>) ])
            /\ Cardinality(LinesWithOp("u00416120")) = k - 1
            /\ Cardinality(LinesWithOp("call")) =
                   IF LabelOfKind # << >> THEN k - 1 ELSE 0
            /\ \A c \in LinesWithOp("call") :
                   final_code[IF speaker = "Narrator" THEN c + 1 ELSE c - 1].op
                       = "u004160D0"

\* two sub-boxes, one of them of two lines, for a character whose label is
\* missing while the narrator's is set: a bridge without a call
C14_Witness ==
    /\ Generated("standard")
    /\ Len(en_container) = 2
    /\ \E b \in 1..2 : Len(PySplit(en_container[b], NL)) = 2
    /\ speaker # "Narrator"
    /\ current_char_label = << >>
    /\ current_narr_label # << >>
    /\ Cardinality(LinesWithOp("u00416120")) = 1

(***************************************************************************)
(* C15.  The output of create_text_box_code_SG depends on the first        *)
(* sub-box of the container only: a blank line, show-text followed by      *)
(* end-text-line for each of its lines, a blank line; the further          *)
(* sub-boxes are discarded and no wait-for-input, bridging sequence or     *)
(* marker is emitted.                                                      *)
(***************************************************************************)
C15_SGFirstSubBoxOnly ==
    Generated("SG") =>
        /\ final_code = << BLANK >> \o ShownLines(en_container[1], TRUE) \o << BLANK >>
        /\ \A k \in 1..Len(final_code) :
             final_code[k].op \in { BLANK.op, ShowText(<< >>).op, END_TEXT_LINE.op }

\* a container whose second sub-box differs from its first, of two lines
C15_Witness ==
    /\ Generated("SG")
    /\ Len(en_container) = 2
    /\ en_container[2] # en_container[1]
    /\ Len(PySplit(en_container[1], NL)) = 2
    /\ Len(final_code) = 6

(***************************************************************************)
(* C20.  reconcile drops, duplicates and reorders no sub-box: in every     *)
(* branch the sub-boxes of the returned containers, the added empty        *)
(* placeholders left out, are the sub-boxes of the given containers in     *)
(* order; when the counts match the containers are returned unchanged, and *)
(* when extras are merged the first len(boxes) - 1 containers are          *)
(* unchanged.                                                              *)
(***************************************************************************)
\* number of placeholders reconcile has to add
Placeholders == Max(0, Len(jp_texts) - Len(Flatten(wrapped)))

EditedLengthDiffers ==
    /\ scene_no >= 1
    /\ edited_script.exists
    /\ Len(edited_script.lines) # Len(jp_script)

(***************************************************************************)
(* C16.  When the edited script of a scene exists and its number of lines  *)
(* differs from that of the working script, whatever its length, the       *)
(* scene fails at the overlay: an error is raised, no run of the scene has *)
(* been spliced and the working script is still the decompiled script.     *)
(***************************************************************************)
C16_LengthMismatchFailsBeforeSplicing ==
    (EditedLengthDiffers /\ pc # "overlay") =>
        /\ pc = "failed"
        /\ error = "ValueError"
        /\ spliced = << >>
        /\ final_en_script = jp_script

(***************************************************************************)
(* C17.  When reinsert_translations has failed in a scene that is not the  *)
(* last one, it goes on: the scenes after it can still be loaded,          *)
(* reconstructed and written.                                              *)
(***************************************************************************)
C17_FailureLeavesLaterScenes ==
    (error # "none" /\ scene_no < n_scenes) => ENABLED NextScenes

(***************************************************************************)
(* C18.  The script of a scene is written only when no error was raised,   *)
(* every box of the scene has been taken and every chunk has been spliced, *)
(* and what is written is the working script at that point; a scene that   *)
(* failed has no output file.                                              *)
(***************************************************************************)
C18_WrittenOnlyWhenComplete ==
    /\ [](error # "none" => scene_no \notin DOMAIN out_files)
    /\ [][ out_files' # out_files =>
             /\ error = "none"
             /\ error' = "none"
             /\ jp_iter = Len(scene_jp_boxes)
             /\ Len(spliced) = Len(collapse_boxes(scene_jp_boxes))
             /\ DOMAIN out_files' = DOMAIN out_files \cup { scene_no }
             /\ out_files'[scene_no] = final_en_script
             /\ \A s \in DOMAIN out_files : out_files'[s] = out_files[s] ]_vars

\* a scene of two chunks failed after its first chunk was spliced: the
\* working script is partly spliced and the scene has no output file
C18_Witness ==
    /\ pc = "failed"
    /\ Len(spliced) = 1
    /\ Len(collapse_boxes(scene_jp_boxes)) = 2
    /\ final_en_script # jp_script
    /\ scene_no \notin DOMAIN out_files

(***************************************************************************)
(* C19.  The text craft_into_script gets for the chunk with id c is the    *)
(* text of the translation record whose id is c, in whatever order the     *)
(* records are; when there is no such record nothing is spliced for the    *)
(* chunk.                                                                  *)
(***************************************************************************)
C19_TextOfRecordWithChunkId ==
    \A k \in 1..Len(spliced) :
        \E r \in 1..Len(translations) :
            /\ translations[r].id = spliced[k].chunk
            /\ translations[r].text = spliced[k].text

RefIsNextMov(lns, j) ==
    /\ j >= 1 /\ j < Len(lns)
    /\ MovMatches(Strip(PyAt(lns, j)))
    /\ \E l \in 0..(j - 1) :
         /\ LookupMatches(Strip(PyAt(lns, l)))
         /\ \A m \in (l + 1)..(j - 1) : ~MovMatches(Strip(PyAt(lns, m)))

RefNextMovs(lns, name, b) ==
    { j \in (RefCloseOf(lns, name, b - 1) + 1)..RefCloseOf(lns, name, b) :
        RefIsNextMov(lns, j) }

C22_NextMovSuppliesSpeaker ==
    Extracted =>
        \A b \in 1..Len(boxes) :
            LET caps == RefNextMovs(lines, scene_id, b)
            IN  boxes[b].speaker =
                    IF caps = { } THEN "Narrator"
                    ELSE NameMapGet(MovId(Strip(PyAt(lines, SetMax(caps)))))

(***************************************************************************)
(* C23.  For every box extract_boxes emitted, a box whose body runs to the *)
(* last line of the script included, the forward scan of craft_into_script *)
(* ends with an exclusive end index that is at most the length of the      *)
(* script, and the splice of the box raises no error.                      *)
(***************************************************************************)
C23_ScanEndsInsideScript ==
    /\ pc # "splice_error"
    /\ last.kind = "splice" => (last.e >= 0 /\ last.e <= Len(last.old))

(***************************************************************************)
(* C24.  For every box of a run whose concat check is made, the first and  *)
(* every later one, the index the check reads is within the working script *)
(* and is the index of the box's marker plus two, a line of the box's own  *)
(* body, whatever the lengths of the bodies of the earlier boxes.          *)
(***************************************************************************)
\* craft_into_script has gone through its first loop and spliced nothing
ConcatPassDone == pc \in { "craft", "craft_error" } /\ i = 0

\* index, in the working script, of the marker of the b-th box of the scene
MarkerNow(b) ==
    CHOOSE p \in 0..(Len(origin) - 1) : PyAt(origin, p) = RefStartOf(lines, scene_id, b)

\* the check of the k-th box of the run is made: the scene is not of the SG
\* family and no earlier check of the run was positive
ConcatCheckMade(k) ==
    /\ ~NameHasSG(scene_id)
    /\ \A j \in 1..(k - 1) : ConcatCheckPositive(j)  = FALSE
    /\ \A j \in 1..(k - 1) : PyInRange(final_en_script, ConcatCheckIndex(j))

C24_ConcatCheckInsideBox ==
    ConcatPassDone =>
        \A k \in 1..Len(jp_box_dicts) :
            ConcatCheckMade(k) =>
                LET m == RefStartOf(lines, scene_id, nxt + k)
                    body == RefLastBody(lines, m) - m
                IN  /\ ConcatCheckIndex(k) >= 0
                    /\ ConcatCheckIndex(k) < Len(final_en_script)
                    /\ ConcatCheckIndex(k) = MarkerNow(nxt + k) + 2
                    /\ ConcatCheckIndex(k) <= MarkerNow(nxt + k) + body

(***************************************************************************)
(* C25.  When the concat checks of a run have been made, no box of the run *)
(* has been spliced: every line after the cursor the previous run left is  *)
(* a line of the original script.  Every index a check reads is greater    *)
(* than that cursor, so a check that reads a line reads an original one.   *)
(***************************************************************************)
C25_ConcatCheckReadsOriginal ==
    ConcatPassDone =>
        /\ \A p \in 0..(Len(final_en_script) - 1) :
               p > starting_offset =>
                   /\ PyAt(origin, p) # -1
                   /\ PyAt(final_en_script, p) = PyAt(lines, PyAt(origin, p))
        /\ \A k \in 1..Len(jp_box_dicts) :
               ConcatCheckMade(k) =>
                   /\ ConcatCheckIndex(k) > starting_offset
                   /\ PyInRange(final_en_script, ConcatCheckIndex(k)) =>
                          PyAt(origin, ConcatCheckIndex(k)) # -1

\* a later run's check reads a line while the script holds spliced lines
C25_Witness ==
    /\ pc = "craft" /\ i = 0 /\ nxt > 0
    /\ \E p \in 0..(Len(origin) - 1) : PyAt(origin, p) = -1
    /\ ConcatCheckMade(1)
    /\ PyInRange(final_en_script, ConcatCheckIndex(1))

(***************************************************************************)
(* C26.  The code create_text_box_code_concat generates for a container is *)
(* the code of the standard variant with a concat instruction of the same  *)
(* text after each show-text and a single end-text-line in place of each   *)
(* bridging sequence; it holds no box-start marker and no label call.      *)
(***************************************************************************)
\* the standard code cd with a concat after each show-text and each bridging
\* sequence (of bridge_len lines, opened by its comment) replaced
RECURSIVE WithConcatAndPlainBridges(_, _)
WithConcatAndPlainBridges(cd, bridge_len) ==
    IF cd = << >> THEN << >>
    ELSE IF Head(cd).op = "show-text 0"
         THEN << Head(cd), ConcatText(Head(cd).text) >>
                  \o WithConcatAndPlainBridges(Tail(cd), bridge_len)
         ELSE IF Head(cd).op = "comment \"Extra Textbox\""
              THEN << END_TEXT_LINE >>
                       \o WithConcatAndPlainBridges(
                              SubSeq(cd, bridge_len + 1, Len(cd)), bridge_len)
              ELSE << Head(cd) >> \o WithConcatAndPlainBridges(Tail(cd), bridge_len)

C26_ConcatIsStandardWithConcat ==
    gen_variant = "concat" =>
        /\ final_code =
               WithConcatAndPlainBridges(
                   create_text_box_code(en_container, speaker, current_char_label,
                                        current_narr_label),
                   Len(bridge(speaker, current_char_label, current_narr_label)))
        /\ \A k \in 1..Len(final_code) :
               final_code[k].op \notin { "u00416120", "call" }

(***************************************************************************)
(* C27.  When reconcile redistributes (fewer containers than boxes and the *)
(* last container has at most need sub-boxes), with t sub-boxes and n      *)
(* boxes the result has n containers; container k holds the next           *)
(* t div n + 1 sub-boxes when k is among the first t mod n and the next    *)
(* t div n otherwise, in order, and it holds the single placeholder ""     *)
(* exactly when that size is 0.                                            *)
(***************************************************************************)
Redistributed ==
    /\ pc = "reconciled"
    /\ Len(jp_texts) > Len(wrapped)
    /\ Len(wrapped[Len(wrapped)]) <= Len(jp_texts) - Len(wrapped)

\* the size of the k-th container (1-based) of n for t sub-boxes
EvenSize(t, n, k) == (t \div n) + (IF k <= t % n THEN 1 ELSE 0)

\* the number of sub-boxes given to the containers before the k-th
RECURSIVE EvenStart(_, _, _)
EvenStart(t, n, k) ==
    IF k <= 1 THEN 0 ELSE EvenStart(t, n, k - 1) + EvenSize(t, n, k - 1)

C27_RedistributionIsEven ==
    Redistributed =>
        LET flat == Flatten(wrapped)
            t == Len(flat)
            n == Len(jp_texts)
        IN  /\ Len(en_containers) = n
            /\ \A k \in 1..n :
                   IF EvenSize(t, n, k) = 0
                   THEN en_containers[k] = << << >> >>
                   ELSE en_containers[k] =
                            SubSeq(flat, EvenStart(t, n, k) + 1,
                                   EvenStart(t, n, k) + EvenSize(t, n, k))

\* four sub-boxes for three boxes: sizes 2, 1, 1
C27_Witness ==
    /\ Redistributed
    /\ Len(Flatten(wrapped)) = 4 /\ Len(jp_texts) = 3
    /\ Len(en_containers[1]) = 2
    /\ en_containers[1][1] # en_containers[1][2]

(***************************************************************************)
(* C28.  correct_en_box is the greedy wrap of the words between single     *)
(* spaces.  A word is appended to the current line exactly when the joined *)
(* line fits line_length: a line of several words fits, and at every break *)
(* the line before joined with the next word does not.  At a break a new   *)
(* sub-box is begun exactly when the current one has text_lines lines.     *)
(* No word is lost, repeated or moved: with every line break and sub-box   *)
(* boundary replaced by one space the result is the text laid out.         *)
(***************************************************************************)
\* the lines of the sub-boxes of a container, in order
LinesOf(cont) == Flatten([ b \in 1..Len(cont) |-> SubBoxLines(cont[b]) ])

WordsOf(line) == PySplit(line, SPACE)

InScene == pc \in { "overlay", "boxes", "failed" }

C30_LabelsOfOwnScene ==
    InScene =>
        LET char_label == find_label_before(jp_script, new_char_text_box_label_template)
            narr_label == find_label_before(jp_script, new_narr_text_box_label_template)
        IN  /\ current_char_label = char_label
            /\ current_narr_label = narr_label
            /\ \A k \in 1..Len(spliced) :
                   /\ spliced[k].char_label = char_label
                   /\ spliced[k].narr_label = narr_label

\* the script of the first scene has both labels, that of the second has
\* none, and a run of the second scene has been generated
C30_Witness ==
    /\ pc = "boxes" /\ scene_no = 2
    /\ 1 \in DOMAIN out_files
    /\ find_label_before(out_files[1], new_char_text_box_label_template) = LABEL_LINE
    /\ find_label_before(out_files[1], new_narr_text_box_label_template) = OTHER_LINE
    /\ Len(spliced) >= 1
    /\ spliced[1].char_label = ""
    /\ spliced[1].narr_label = ""

====
